---- MODULE Spec2Model ----
(***************************************************************************)
(* Model of src/minesweeper.py: the MineSweeper class.                     *)
(*                                                                         *)
(* A board is built by __init__ from a mine mask; reveal() uncovers a      *)
(* square and cascades recursively from squares whose count is 0.          *)
(* One step of the model is one activation of reveal(): the top-level     *)
(* call, or one of the nested calls of the cascade, kept on a call stack   *)
(* (the program is single-threaded and synchronous).                       *)
(* Coordinates are 0-based as in the source; a grid is a function from     *)
(* <<row, col>> to an integer.                                             *)
(***************************************************************************)
EXTENDS Integers, Sequences, FiniteSets, TLC

\* ---- bounds of the model ------------------------------------------------
\* widest board, most mines on a board, most top-level calls of reveal
MaxCols == 3
MaxMines == 2
MaxCalls == 2

\* ---- values of the source ------------------------------------------------
\* return codes of reveal (docstring, lines 80-83)
Blocked == -1
MineHit == 0
SafeReveal == 1

\* return codes of getsquare (docstring, lines 117-121)
SquareCovered == -1
SquareMine == -2
SquareOutOfBounds == -3

\* the kernel [1, 1, 1] of np.convolve (lines 34, 36)
Kernel == <<1, 1, 1>>

VARIABLES
    request,      \* history: the arguments board_dims, num_mines of fromdimensions
    built,        \* TRUE iff the constructor returned an object (FALSE: it raised)
    size,         \* self.size = (rows, cols)
    mines,        \* self.mines
    board,        \* self.board (the counts)
    covered,      \* self.covered
    num_mines,    \* self.num_mines
    num_covered,  \* self.num_covered
    game_state,   \* self.game_state
    last,         \* history: the square most recently uncovered, <<>> if none
    calls,        \* history: number of top-level calls of reveal so far
    arg,          \* history: <<row, col>> of the latest top-level call
    ret,          \* history: what the latest top-level call returned
    stack,        \* the activations of reveal in progress, outermost first
    acts,         \* history: activations of reveal in the latest top-level call
    pre,          \* history: covered, num_covered, game_state before that call
    op            \* history: the method called latest, "new" after construction

vars == <<request, built, size, mines, board, covered, num_mines, num_covered,
          game_state, last, calls, arg, ret, stack, acts, pre, op>>

\* ---- helpers ---------------------------------------------------------------
Max(a, b) == IF a >= b THEN a ELSE b
Min(a, b) == IF a <= b THEN a ELSE b

Cells(shape) == (0 .. shape[1] - 1) \X (0 .. shape[2] - 1)

RECURSIVE SumSeq(_)
SumSeq(s) == IF s = <<>> THEN 0 ELSE Head(s) + SumSeq(Tail(s))

RECURSIVE SumOver(_, _)
SumOver(f, S) ==
    IF S = {} THEN 0
    ELSE LET x == CHOOSE y \in S : TRUE IN f[x] + SumOver(f, S \ {x})

\* numpy indexing a[row, col]: a negative index counts from the end
Wrap(i, n) == IF i < 0 THEN i + n ELSE i
Index(row, col) == <<Wrap(row, size[1]), Wrap(col, size[2])>>
At(grid, row, col) == grid[Index(row, col)]

\* ---- np.convolve(a, v, 'same') ----------------------------------------------
\* full discrete convolution, 1-based sequences, length Len(a) + Len(v) - 1
ConvolveFull(a, v) ==
    [k \in 1 .. (Len(a) + Len(v) - 1) |->
        SumSeq([i \in 1 .. Len(a) |->
            IF k - i + 1 \in 1 .. Len(v) THEN a[i] * v[k - i + 1] ELSE 0])]

\* (variant: the first max(M, N) entries instead of the central ones)
ConvolveSame_Leading(a, v) ==
    [k \in 1 .. Max(Len(a), Len(v)) |-> ConvolveFull(a, v)[k]]

\* mode 'same': the central max(M, N) entries of the full convolution
ConvolveSame(a, v) ==
    LET n == Min(Len(a), Len(v))
        off == (n - 1) \div 2
    IN  [k \in 1 .. Max(Len(a), Len(v)) |-> ConvolveFull(a, v)[k + off]]

\* ---- __init__ ---------------------------------------------------------------
\* self.mines = np.asarray(mines > 0, dtype=np.int8)
MinesOf(shape, mask) == [p \in Cells(shape) |-> IF mask[p] > 0 THEN 1 ELSE 0]

RowOf(shape, g, r) == [j \in 1 .. shape[2] |-> g[<<r, j - 1>>]]
ColOf(shape, g, c) == [i \in 1 .. shape[1] |-> g[<<i - 1, c>>]]

\* first loop (lines 33-34): board[r, :] = convolve(mines[r, :])
RowPass(shape, m) ==
    [p \in Cells(shape) |-> ConvolveSame(RowOf(shape, m, p[1]), Kernel)[p[2] + 1]]

\* second loop (lines 35-36): board[:, c] = convolve(board[:, c])
ColPass(shape, b) ==
    [p \in Cells(shape) |-> ConvolveSame(ColOf(shape, b, p[2]), Kernel)[p[1] + 1]]

\* The slice assignments of lines 34 and 36 raise ValueError unless the
\* convolution has the length of the row (column) it is assigned to.
\* np.convolve raises ValueError as well when the row (column) is empty. A
\* loop over no row (column) raises nothing.
InitRaises(shape) ==
    \/ /\ shape[1] > 0
       /\ \/ shape[2] = 0
          \/ Len(ConvolveSame([j \in 1 .. shape[2] |-> 0], Kernel)) # shape[2]
    \/ /\ shape[2] > 0
       /\ \/ shape[1] = 0
          \/ Len(ConvolveSame([i \in 1 .. shape[1] |-> 0], Kernel)) # shape[1]

\* (variant: the count of a mine leaves the mine itself out)
BoardOf_ExcludingSelf(shape, m) ==
    IF InitRaises(shape) THEN [p \in Cells(shape) |-> 0]
    ELSE [p \in Cells(shape) |-> ColPass(shape, RowPass(shape, m))[p] - m[p]]

BoardOf(shape, m) ==
    IF InitRaises(shape) THEN [p \in Cells(shape) |-> 0]
    ELSE ColPass(shape, RowPass(shape, m))

\* ---- fromdimensions ----------------------------------------------------------
\* line 43: np.zeros raises ValueError on a negative dimension
ZerosRaises(board_dims) == board_dims[1] < 0 \/ board_dims[2] < 0

\* line 45: np.random.choice(a, n, replace=False) raises ValueError when n is
\* negative and when n exceeds the population a; with a = 0 and n = 0 it returns
\* no index
ChoiceRaises(a, n) == n < 0 \/ n > a

\* fromdimensions raises before it calls cls(mines) (line 49)
FromDimensionsRaises(board_dims, n) ==
    \/ ZerosRaises(board_dims)
    \/ ChoiceRaises(board_dims[1] * board_dims[2], n)

\* ---- reveal -----------------------------------------------------------------
\* (variant: only the four calls on the squares that share an edge)
Offsets_Orthogonal == << <<-1, 0>>, <<0, -1>>, <<0, 1>>, <<1, 0>> >>

\* the eight recursive calls, in the order of lines 98-105
Offsets == << <<-1, -1>>, <<-1, 0>>, <<-1, 1>>, <<0, -1>>,
              <<0, 1>>, <<1, -1>>, <<1, 0>>, <<1, 1>> >>

\* (variant: the tests row < 0 and col < 0 left out)
OutOfBounds_NoNegative(row, col) ==
    size[1] <= row \/ size[2] <= col

\* line 85, the bounds part of the guard
OutOfBounds(row, col) ==
    row < 0 \/ size[1] <= row \/ col < 0 \/ size[2] <= col

\* (variant: a game that is over blocks every call)
Guard_GameOver(self, row, col) ==
    \/ self.game_state # "in_progress"
    \/ OutOfBounds(row, col)
    \/ At(self.covered, row, col) = 0

\* (variant: the test covered[row, col] == 0 left out)
Guard_BoundsOnly(self, row, col) == OutOfBounds(row, col)

\* line 85, the whole guard (or is short-circuit: covered is read in bounds only)
Guard(self, row, col) ==
    OutOfBounds(row, col) \/ At(self.covered, row, col) = 0

\* (variant: line 89 counts down num_mines instead of num_covered)
Uncover_WrongCounter(self, row, col) ==
    [self EXCEPT !.covered[Index(row, col)] = 0,
                 !.num_mines = @ - 1,
                 !.last = Index(row, col)]

\* lines 88-89
Uncover(self, row, col) ==
    [self EXCEPT !.covered[Index(row, col)] = 0,
                 !.num_covered = @ - 1,
                 !.last = Index(row, col)]

\* (variant: win when no square is covered any more)
CheckWin_AllUncovered(self) ==
    IF self.num_covered = 0
    THEN [self EXCEPT !.game_state = "win"]
    ELSE self

\* lines 90-91
CheckWin(self) ==
    IF self.num_covered = self.num_mines
    THEN [self EXCEPT !.game_state = "win"]
    ELSE self

\* (variant: a game that line 91 has just won is not set to failure)
SetFailure_UnlessWin(self) ==
    IF self.game_state = "win" THEN self
    ELSE [self EXCEPT !.game_state = "failure"]

\* lines 93-94
SetFailure(self) == [self EXCEPT !.game_state = "failure"]

\* (variant: the test of line 93 negated)
IsMine_Negated(row, col) == At(mines, row, col) = 0

\* line 93
IsMine(row, col) == At(mines, row, col) # 0

\* (variant: cascade from the squares of count 1 as well)
Cascades_AtMostOne(row, col) == At(board, row, col) <= 1

\* line 97
Cascades(row, col) == At(board, row, col) = 0

\* One activation of reveal(row, col), lines 85-97, on the mutable fields
\* self: .ret is the value the activation returns, and .cascade tells whether
\* it goes on to the nested calls of lines 98-105 before returning it.
Activation(self, row, col) ==
    IF Guard(self, row, col)
    THEN [self EXCEPT !.ret = Blocked, !.cascade = FALSE]
    ELSE LET s == CheckWin(Uncover(self, row, col)) IN
         IF IsMine(row, col)
         THEN [SetFailure(s) EXCEPT !.ret = MineHit, !.cascade = FALSE]
         ELSE [s EXCEPT !.ret = SafeReveal, !.cascade = Cascades(row, col)]

\* the object as Activation takes it: the fields reveal assigns, and the
\* counter num_mines it compares num_covered with
Self ==
    [num_mines |-> num_mines, covered |-> covered, num_covered |-> num_covered,
     game_state |-> game_state, last |-> last,
     ret |-> Blocked, cascade |-> FALSE]

\* A frame <<row, col, k>> of the call stack is an activation of
\* reveal(row, col) that is about to make the k-th call of lines 98-105;
\* a frame that has made all of them returns (line 107).
RECURSIVE Unwind(_)
Unwind(st) ==
    IF st # <<>> /\ st[Len(st)][3] > Len(Offsets)
    THEN Unwind(SubSeq(st, 1, Len(st) - 1))
    ELSE st

\* The nested calls of lines 98-105 still to be made by the activations on the
\* stack st, run to the end: the object when the outermost activation returns.
RECURSIVE Nested(_, _)
Nested(self, st) ==
    IF st = <<>> THEN self
    ELSE LET top == st[Len(st)]
             row == top[1] + Offsets[top[3]][1]
             col == top[2] + Offsets[top[3]][2]
             out == Activation(self, row, col)
             caller == [st EXCEPT ![Len(st)][3] = @ + 1]
             after == Unwind(IF out.cascade
                             THEN Append(caller, <<row, col, 1>>)
                             ELSE caller)
         IN  IF out.num_covered >= 0 /\ Len(after) >= 0
             THEN Nested(out, after)
             ELSE out

\* a whole top-level call reveal(row, col) on the object self, lines 85-107
reveal(self, row, col) ==
    LET out == Activation(self, row, col) IN
    IF out.cascade
    THEN [Nested(out, << <<row, col, 1>> >>) EXCEPT !.ret = SafeReveal]
    ELSE out

\* ---- getstate, getsquare -------------------------------------------------------
getstate == game_state

getsquare(row, col) ==
    IF OutOfBounds(row, col) THEN SquareOutOfBounds
    ELSE IF At(covered, row, col) # 0 THEN SquareCovered
    ELSE IF IsMine(row, col) THEN SquareMine
    ELSE At(board, row, col)

\* ---- the state machine -----------------------------------------------------------
\* the board_dims a caller may pass: heights up to the length of the kernel (the
\* heights __init__ rejects and the smallest one it accepts), widths up to
\* MaxCols, and a zero and a negative value of each
Shapes == (-1 .. Len(Kernel)) \X (-1 .. MaxCols)

\* the num_mines a caller may pass
Counts == -1 .. MaxMines

Masks(shape) ==
    {m \in [Cells(shape) -> {0, 1}] : SumOver(m, Cells(shape)) <= MaxMines}

\* lines 45-47: the masks fromdimensions may draw, n distinct squares set to 1
Draws(shape, n) == {m \in Masks(shape) : SumOver(m, Cells(shape)) = n}

\* The state after MineSweeper.fromdimensions(shape, n) when it drew mask
\* (the mask of zeros of line 43 when it raised before drawing). When the
\* constructor raises there is no object, and built is FALSE.
Constructed(shape, n, mask) ==
        /\ request = [board_dims |-> shape, num_mines |-> n]
        /\ built = IF FromDimensionsRaises(shape, n) THEN FALSE
                   ELSE ~InitRaises(shape)
        /\ size = shape
        /\ mines = MinesOf(shape, mask)
        /\ num_mines = SumOver(MinesOf(shape, mask), Cells(shape))
        /\ board = IF FromDimensionsRaises(shape, n) THEN mask
                   ELSE BoardOf(shape, MinesOf(shape, mask))
        /\ covered = [p \in Cells(shape) |-> 1]
        /\ num_covered = shape[1] * shape[2]
        /\ game_state = "in_progress"
        /\ last = <<>>
        /\ calls = 0
        /\ arg = <<>>
        /\ ret = Blocked
        /\ stack = <<>>
        /\ acts = 0
        /\ pre = [covered |-> [p \in Cells(shape) |-> 1],
                  num_covered |-> shape[1] * shape[2],
                  game_state |-> "in_progress"]
        /\ op = "new"

\* fromdimensions ends in MineSweeper(mask) for the mask it drew: every 0/1
\* mask of n mines is a draw, so the states after fromdimensions are also the
\* states after MineSweeper(mask) called directly.
Init ==
    \E shape \in Shapes, n \in Counts :
      \E mask \in (IF FromDimensionsRaises(shape, n)
                   THEN {[p \in Cells(shape) |-> 0]}
                   ELSE Draws(shape, n)) :
        Constructed(shape, n, mask)

\* coordinates a caller may pass: every square, outside the board one
\* coordinate for each way of failing the bounds test of line 85, and one that
\* fails it in both coordinates
Coords ==
    Cells(size) \cup {<<-1, 0>>, <<size[1], 0>>, <<0, -1>>, <<0, size[2]>>,
                      <<-1, size[2]>>}

\* A caller calls reveal(row, col): the activation of the top-level call.
\* A call that returned -1 at line 86 has assigned nothing, so the calls that
\* may follow it are those that may be made in its place: they are taken
\* there, and a blocked call is the last of its sequence of calls.
Reveal(row, col) ==
    /\ built
    /\ stack = <<>>
    /\ calls < MaxCalls
    /\ ~(calls > 0 /\ ret = Blocked)
    /\ LET out == Activation(Self, row, col) IN
        /\ num_mines' = out.num_mines
        /\ covered' = out.covered
        /\ num_covered' = out.num_covered
        /\ game_state' = out.game_state
        /\ last' = out.last
        /\ stack' = IF out.cascade THEN << <<row, col, 1>> >> ELSE <<>>
        /\ ret' = IF out.cascade THEN ret ELSE out.ret
    /\ pre' = [covered |-> covered, num_covered |-> num_covered,
               game_state |-> game_state]
    /\ arg' = <<row, col>>
    /\ calls' = calls + 1
    /\ acts' = 1
    /\ op' = "reveal"
    /\ UNCHANGED <<request, built, size, mines, board>>

\* the innermost activation makes its next call of lines 98-105: the
\* activation of that nested call; its result is discarded. The top-level
\* call returns 1 (line 107) when its last nested call has returned.
Cascade ==
    /\ stack # <<>>
    /\ LET top == stack[Len(stack)]
           row == top[1] + Offsets[top[3]][1]
           col == top[2] + Offsets[top[3]][2]
           out == Activation(Self, row, col)
           caller == [stack EXCEPT ![Len(stack)][3] = @ + 1]
           after == Unwind(IF out.cascade
                           THEN Append(caller, <<row, col, 1>>)
                           ELSE caller)
       IN  /\ num_mines' = out.num_mines
           /\ covered' = out.covered
           /\ num_covered' = out.num_covered
           /\ game_state' = out.game_state
           /\ last' = out.last
           /\ stack' = after
           /\ ret' = IF after = <<>> THEN SafeReveal ELSE ret
    /\ acts' = acts + 1
    /\ UNCHANGED <<request, built, size, mines, board, calls, arg, pre, op>>

Next ==
    \/ \E p \in Coords : Reveal(p[1], p[2])
    \/ Cascade

Spec == Init /\ [][Next]_vars

\* The program is single-threaded and synchronous: a call of reveal in flight
\* goes on to its next nested call or returns.
FairSpec == Spec /\ WF_vars(Cascade)

\* ---- every layout, one call -----------------------------------------------------
\* every 0/1 mask of every shape with a row and a column, whatever its number
\* of mines
EveryMask(shape) == [Cells(shape) -> {0, 1}]

InitEveryMask ==
    \E shape \in {sh \in Shapes : sh[1] > 0 /\ sh[2] > 0} :
      \E mask \in EveryMask(shape) :
        Constructed(shape, SumOver(mask, Cells(shape)), mask)

\* the first top-level call on the object
RevealFirst(row, col) == calls = 0 /\ Reveal(row, col)

NextFirst ==
    \/ \E p \in Coords : RevealFirst(p[1], p[2])
    \/ Cascade

SpecEveryMask == InitEveryMask /\ [][NextFirst]_vars

\* ---- at most one call ---------------------------------------------------------
SpecFirst == Init /\ [][NextFirst]_vars

\* ---- one call, and the queries ---------------------------------------------------
\* a caller calls getsquare(row, col) between two calls of reveal: the method
\* assigns nothing (lines 123-133); what it returns is getsquare(row, col)
GetSquare(row, col) ==
    /\ built
    /\ stack = <<>>
    /\ op' = "getsquare"
    /\ arg' = <<row, col>>
    /\ UNCHANGED <<request, built, size, mines, board, covered, num_mines,
                   num_covered, game_state, last, calls, ret, stack, acts, pre>>

\* a caller calls getstate(): the method assigns nothing (line 113)
GetState ==
    /\ built
    /\ stack = <<>>
    /\ op' = "getstate"
    /\ arg' = <<>>
    /\ UNCHANGED <<request, built, size, mines, board, covered, num_mines,
                   num_covered, game_state, last, calls, ret, stack, acts, pre>>

NextQueries ==
    \/ \E p \in Coords : RevealFirst(p[1], p[2])
    \/ Cascade
    \/ \E p \in Coords : GetSquare(p[1], p[2])
    \/ GetState

SpecQueries == Init /\ [][NextQueries]_vars

\* ---- vocabulary of the properties ----------------------------------------------
\* the latest top-level call of reveal has returned (no call is in flight)
Returned == built /\ calls > 0 /\ stack = <<>>

ArgInBounds == arg \in Cells(size)

Uncovered(cov) == {p \in Cells(size) : cov[p] = 0}
UncoveredMines(cov) == {p \in Cells(size) : cov[p] = 0 /\ mines[p] # 0}
CoveredSafe(cov) == {p \in Cells(size) : cov[p] # 0 /\ mines[p] = 0}

Adjacent(p, q) ==
    p # q /\ (p[1] - q[1]) \in -1 .. 1 /\ (p[2] - q[2]) \in -1 .. 1

\* the number of mines among the up to 8 neighbours of p inside the board
NeighbourMines(p) ==
    Cardinality({q \in Cells(size) : Adjacent(p, q) /\ mines[q] # 0})

\* the maximal 8-connected set of zero-count squares that contains S
RECURSIVE Grow(_)
Grow(S) ==
    LET T == S \cup {q \in Cells(size) :
                        board[q] = 0 /\ \E p \in S : Adjacent(p, q)}
    IN  IF T = S THEN S ELSE Grow(T)

Region(p) == Grow({p})

\* the squares of non-zero count that border the region of p
Ring(p) ==
    {q \in Cells(size) \ Region(p) :
        board[q] # 0 /\ \E r \in Region(p) : Adjacent(r, q)}

SameObject ==
    /\ covered = pre.covered
    /\ num_covered = pre.num_covered
    /\ game_state = pre.game_state

\* ---- C1 --------------------------------------------------------------------------
\* C1: once game_state is Loss ('failure'), getstate returns Loss after every
\* later top-level call of reveal: a call that starts in Loss returns in Loss.
C1_LossIsTerminal ==
    (Returned /\ pre.game_state = "failure") => getstate = "failure"

\* ---- C2 --------------------------------------------------------------------------
\* C2: game_state starts InProgress, and a top-level call of reveal that
\* starts in Win ('win') returns in Win, a reveal of a covered mine included.
C2_WinIsTerminal ==
    /\ (built /\ calls = 0) => getstate = "in_progress"
    /\ (Returned /\ pre.game_state = "win") => getstate = "win"

\* ---- C3 --------------------------------------------------------------------------
\* C3: between top-level calls, game_state = Win implies
\* num_covered = num_mines and no mine is uncovered.
C3_WinMeansCleared ==
    (built /\ stack = <<>> /\ game_state = "win") =>
        (num_covered = num_mines /\ UncoveredMines(covered) = {})

\* ---- C4 --------------------------------------------------------------------------
\* C4 as stated: between top-level calls, game_state = Loss implies that the
\* square most recently uncovered is a mine.
C4_LossMeansLastIsMine ==
    (built /\ stack = <<>> /\ game_state = "failure") =>
        (last \in Cells(size) /\ mines[last] # 0)

\* C4 as amended: between top-level calls, game_state = Loss implies that a
\* mine is uncovered, and when the latest call is the one that moved
\* game_state to Loss it returned MineHit and the square most recently
\* uncovered is its target, a mine.
C4_LossMeansMineUncovered ==
    (built /\ stack = <<>> /\ game_state = "failure") =>
        /\ UncoveredMines(covered) # {}
        /\ pre.game_state # "failure" =>
              (ret = MineHit /\ last = arg /\ mines[last] # 0)

C4_Witness ==
    /\ Returned /\ game_state = "failure" /\ pre.game_state = "failure"
    /\ ret = SafeReveal /\ mines[last] = 0

\* ---- C5 --------------------------------------------------------------------------
\* the latest call uncovered the last covered square that is not a mine
UncoveredLastSafe ==
    Returned /\ CoveredSafe(pre.covered) # {} /\ CoveredSafe(covered) = {}

\* C5 as stated: when a top-level call uncovers the last covered non-mine
\* square, game_state is Win and num_covered = num_mines when it returns.
C5_LastSafeWins ==
    UncoveredLastSafe => (game_state = "win" /\ num_covered = num_mines)

\* C5 as amended: the same, for a call made while no mine is uncovered.
C5_LastSafeWinsUnlessMineUncovered ==
    (UncoveredLastSafe /\ UncoveredMines(pre.covered) = {}) =>
        (game_state = "win" /\ num_covered = num_mines)

C5_Witness ==
    /\ UncoveredLastSafe /\ UncoveredMines(pre.covered) = {}
    /\ num_mines > 0 /\ calls > 1 /\ acts = 1 /\ game_state = "win"

\* ---- C6 --------------------------------------------------------------------------
\* C6: a top-level call on a covered square in bounds that is not a mine
\* returns the safe code, and the hint of the square (what getsquare then
\* reports) is the number of mines among its neighbours, in 0..8; and a 1x1
\* board without mines exists, where reveal(0, 0) gives a safe reveal with
\* hint 0.
C6_SafeRevealHint ==
    /\ (Returned /\ ArgInBounds /\ pre.covered[arg] # 0 /\ mines[arg] = 0) =>
          /\ ret = SafeReveal
          /\ getsquare(arg[1], arg[2]) = NeighbourMines(arg)
          /\ getsquare(arg[1], arg[2]) \in 0 .. 8
    /\ (size = <<1, 1>> /\ num_mines = 0) =>
          /\ built
          /\ (Returned /\ arg = <<0, 0>> /\ pre.covered[arg] # 0) =>
                (ret = SafeReveal /\ getsquare(0, 0) = 0)

\* ---- C7 --------------------------------------------------------------------------
\* C7: a top-level call with row outside [0, rows) or col outside [0, cols),
\* negative coordinates included, returns Blocked and leaves covered,
\* num_covered and game_state as they were.
C7_OutOfBoundsBlocked ==
    (Returned /\ ~ArgInBounds) => (ret = Blocked /\ SameObject)

C7_Witness ==
    /\ Returned /\ ~ArgInBounds /\ arg[1] < 0
    /\ Uncovered(covered) # {} /\ ret = Blocked

\* ---- C8 --------------------------------------------------------------------------
\* C8: a top-level call on a square in bounds that is already uncovered,
\* directly or by a cascade, returns Blocked and leaves covered, num_covered
\* and game_state as they were.
C8_UncoveredBlocked ==
    (Returned /\ ArgInBounds /\ pre.covered[arg] = 0) =>
        (ret = Blocked /\ SameObject)

C8_Witness ==
    /\ Returned /\ ArgInBounds /\ pre.covered[arg] = 0 /\ ret = Blocked
    /\ Cardinality(Uncovered(covered)) > 1

\* ---- C9 --------------------------------------------------------------------------
\* the latest call was made on a covered square of count 0 that is not a mine
RevealedZero ==
    /\ Returned /\ ArgInBounds
    /\ pre.covered[arg] # 0 /\ mines[arg] = 0 /\ board[arg] = 0

\* C9: when a top-level call on a covered zero-count square returns, every
\* square of the maximal 8-connected region of zero-count squares around the
\* target and every non-zero-count square adjacent to that region is
\* uncovered, and the call uncovered no square outside the region and its ring.
C9_CascadeRegion ==
    RevealedZero =>
        /\ \A p \in Region(arg) \cup Ring(arg) : covered[p] = 0
        /\ \A p \in Cells(size) :
              (pre.covered[p] # 0 /\ covered[p] = 0) =>
                  p \in Region(arg) \cup Ring(arg)

C9_Witness ==
    /\ RevealedZero /\ Ring(arg) # {}
    /\ Cells(size) \ (Region(arg) \cup Ring(arg)) # {}
    /\ \E p \in Ring(arg) : pre.covered[p] = 0

\* ---- C10 -------------------------------------------------------------------------
\* C10: a top-level call whose target is not a mine uncovers no mine, the
\* cascade included: the uncovered mines are the same before and after it.
C10_NoMineAutoUncovered ==
    (Returned /\ (ArgInBounds => mines[arg] = 0)) =>
        UncoveredMines(covered) = UncoveredMines(pre.covered)

C10_Witness ==
    /\ Returned /\ ArgInBounds /\ mines[arg] = 0 /\ ret = SafeReveal
    /\ acts > 1 /\ num_mines > 0
    /\ \E p \in Ring(arg) : \E q \in Cells(size) : Adjacent(p, q) /\ mines[q] # 0

\* ---- C11 -------------------------------------------------------------------------
\* C11: on every board, the count stored for a square that is not a mine, which
\* getsquare returns once the square is uncovered, is the number of mines among
\* its up to 8 neighbours inside the board (no wraparound at the edges).
C11_CountIsNeighbourMines ==
    built =>
        \A p \in Cells(size) :
            mines[p] = 0 =>
                /\ board[p] = NeighbourMines(p)
                /\ covered[p] = 0 => getsquare(p[1], p[2]) = NeighbourMines(p)

\* an uncovered corner square with mines on its three neighbours and on the
\* squares at the opposite ends of its row and of its column
C11_Witness ==
    /\ Returned /\ arg = <<0, 0>> /\ covered[arg] = 0 /\ mines[arg] = 0
    /\ getsquare(0, 0) = 3
    /\ mines[<<0, size[2] - 1>>] # 0 /\ mines[<<size[1] - 1, 0>>] # 0

\* ---- C12 -------------------------------------------------------------------------
\* C12: fromdimensions fails, producing no board, when num_mines < 0,
\* num_mines > rows * cols, rows <= 0 or cols <= 0; otherwise it yields a board
\* of the dimensions asked for with exactly num_mines distinct mines, every
\* square covered, and game_state InProgress.
C12_FromDimensions ==
    calls = 0 =>
        LET rows == request.board_dims[1]
            cols == request.board_dims[2]
            n == request.num_mines
        IN  IF n < 0 \/ n > rows * cols \/ rows <= 0 \/ cols <= 0
            THEN ~built
            ELSE /\ built
                 /\ size = request.board_dims
                 /\ Cardinality({p \in Cells(size) : mines[p] # 0}) = n
                 /\ num_mines = n
                 /\ \A p \in Cells(size) : covered[p] # 0
                 /\ num_covered = rows * cols
                 /\ getstate = "in_progress"

\* ---- C13 -------------------------------------------------------------------------
\* C13: in every reachable state, the states in the middle of a cascade
\* included, num_covered is the number of squares whose covered flag is set:
\* each square is counted down once, by the activation that uncovers it.
C13_NumCoveredCounts ==
    built => num_covered = Cardinality({p \in Cells(size) : covered[p] # 0})

\* in the middle of a cascade, after a nested call was blocked by a square
\* that is uncovered already
C13_Witness ==
    /\ built /\ stack # <<>> /\ Len(stack) > 1
    /\ Cardinality(Uncovered(covered)) > 2
    /\ acts > Cardinality(Uncovered(covered) \ Uncovered(pre.covered))
    /\ Uncovered(pre.covered) # {}

\* ---- C14 -------------------------------------------------------------------------
\* C14 as stated: every entry of the counts grid lies in 0..8, the entries of
\* the mine squares included.
C14_CountsUpTo8 ==
    built => \A p \in Cells(size) : board[p] \in 0 .. 8

\* C14 as amended: the entry of a square that is not a mine lies in 0..8; the
\* entry of a mine counts the mine itself and lies in 1..9.
C14_CountsUpTo9 ==
    built =>
        \A p \in Cells(size) :
            /\ mines[p] = 0 => board[p] \in 0 .. 8
            /\ mines[p] # 0 => (board[p] \in 1 .. 9
                                /\ board[p] = NeighbourMines(p) + 1)

\* the first call uncovers a mine whose 8 neighbours are mines: its entry is 9,
\* and getsquare reports the mine, not the entry
C14_Witness ==
    /\ Returned /\ ArgInBounds /\ mines[arg] # 0 /\ covered[arg] = 0
    /\ board[arg] = 9 /\ getsquare(arg[1], arg[2]) = SquareMine

\* ---- C15 -------------------------------------------------------------------------
\* the latest call was made on a covered mine in bounds
RevealedMine ==
    Returned /\ ArgInBounds /\ pre.covered[arg] # 0 /\ mines[arg] # 0

\* C15: a top-level call on a covered mine in bounds returns MineHit, uncovers
\* that square and no other (num_covered goes down by one, nothing cascades),
\* and game_state is Loss when it returns, also when num_covered equals
\* num_mines after the decrement.
C15_MineHit ==
    RevealedMine =>
        /\ ret = MineHit
        /\ covered = [pre.covered EXCEPT ![arg] = 0]
        /\ num_covered = pre.num_covered - 1
        /\ acts = 1
        /\ getstate = "failure"

\* the decrement brings num_covered down to num_mines
C15_Witness ==
    /\ RevealedMine /\ num_covered = num_mines /\ ret = MineHit
    /\ pre.game_state = "in_progress" /\ getstate = "failure"

\* ---- C16 -------------------------------------------------------------------------
\* the squares the latest top-level call has uncovered so far
NewlyUncovered == Uncovered(covered) \ Uncovered(pre.covered)

\* C16 as stated: a top-level call of reveal makes at most rows * cols nested
\* calls of reveal.
C16_NestedCallsUpToCells ==
    (built /\ calls > 0) => acts - 1 <= size[1] * size[2]

\* at every point of a top-level call: the activations that uncover a square
\* are at most rows * cols, the nested calls (the blocked ones included) are at
\* most 8 for each square uncovered, and the activations in progress at most
\* one for each square uncovered
ActivationsBounded ==
    (built /\ calls > 0) =>
        /\ Cardinality(NewlyUncovered) <= size[1] * size[2]
        /\ acts - 1 <= Len(Offsets) * Cardinality(NewlyUncovered)
        /\ acts - 1 <= Len(Offsets) * size[1] * size[2]
        /\ Len(stack) <= Cardinality(NewlyUncovered)

\* C16 as amended: every top-level call of reveal returns, and until it does
\* the activations are bounded as above.
C16_Terminates ==
    /\ []ActivationsBounded
    /\ (stack # <<>>) ~> (stack = <<>>)

\* the whole of a board without mines uncovered by one call: 8 nested calls
\* for each of its squares
C16_Witness ==
    /\ Returned /\ num_mines = 0 /\ num_covered = 0 /\ calls = 1
    /\ acts - 1 = Len(Offsets) * size[1] * size[2]
    /\ acts - 1 > size[1] * size[2]

\* ---- C17 -------------------------------------------------------------------------
\* C17: no step after construction changes the dimensions, mines, counts or
\* num_mines; an activation of reveal changes at most covered, num_covered and
\* game_state, and never covers a square again; getsquare and getstate change
\* nothing.
C17_Frame ==
    [][/\ size' = size /\ mines' = mines /\ board' = board
       /\ num_mines' = num_mines
       /\ \A p \in Cells(size) : covered[p] = 0 => covered'[p] = 0
       /\ op' \in {"getsquare", "getstate"} =>
              /\ covered' = covered
              /\ num_covered' = num_covered
              /\ game_state' = game_state]_vars

\* getsquare reports an uncovered mine after reveal has uncovered it
C17_Witness ==
    /\ op = "getsquare" /\ calls = 1 /\ ArgInBounds
    /\ getsquare(arg[1], arg[2]) = SquareMine /\ getstate = "failure"

\* ---- C18 -------------------------------------------------------------------------
\* the uncovered squares of count 0 that are not mines
UncoveredZeros == {p \in Uncovered(covered) : mines[p] = 0 /\ board[p] = 0}

\* C18: between top-level calls, all the neighbours inside the board of an
\* uncovered zero-count square that is not a mine are uncovered.
C18_ZerosAreOpenedUp ==
    (built /\ stack = <<>>) =>
        \A p \in UncoveredZeros :
            \A q \in Cells(size) : Adjacent(p, q) => covered[q] = 0

\* a call has opened a zero-count region next to covered squares, and the
\* call after it has uncovered one of them
C18_Witness ==
    /\ Returned /\ calls = 2 /\ ret = SafeReveal /\ num_covered > 0
    /\ UncoveredZeros # {} /\ arg \notin UncoveredZeros
    /\ \E p \in UncoveredZeros : pre.covered[p] = 0

\* ---- C20 -------------------------------------------------------------------------
\* a board with a square that is not a mine, no call in flight, no mine
\* uncovered
NoMineUncovered ==
    /\ built /\ stack = <<>>
    /\ \E p \in Cells(size) : mines[p] = 0
    /\ UncoveredMines(covered) = {}

\* C20: on a board with a square that is not a mine, between top-level calls
\* and while no mine is uncovered, game_state is never Loss; it is Win exactly
\* when every square that is not a mine is uncovered, which is exactly when
\* num_covered = num_mines, and InProgress otherwise.
C20_StateWhileNoMineUncovered ==
    NoMineUncovered =>
        /\ getstate # "failure"
        /\ getstate = "win" <=> CoveredSafe(covered) = {}
        /\ CoveredSafe(covered) = {} <=> num_covered = num_mines
        /\ getstate # "win" => getstate = "in_progress"

\* won by the second call, on a board with mines
C20_Witness ==
    /\ NoMineUncovered /\ calls = 2 /\ num_mines > 0
    /\ pre.game_state = "in_progress" /\ pre.num_covered < size[1] * size[2]
    /\ getstate = "win" /\ num_covered = num_mines

\* ---- C19 -------------------------------------------------------------------------
\* the object after reveal(a); reveal(b)
AfterBoth(a, b) == reveal(reveal(Self, a[1], a[2]), b[1], b[2])

\* an order of the coordinates, to take each pair once
Before(a, b) == a[1] < b[1] \/ (a[1] = b[1] /\ a[2] < b[2])

\* between top-level calls, in the initial state or after a call that was not
\* blocked (a blocked call leaves the object as it found it)
FreshIdle == built /\ stack = <<>> /\ (calls > 0 => ret # Blocked)

\* C19: from a state between top-level calls, reveal(a); reveal(b) and
\* reveal(b); reveal(a) leave the same covered grid and the same num_covered,
\* and the same game_state when neither a nor b is a mine.
C19_OrderIndependent ==
    FreshIdle =>
        \A a \in Coords, b \in Coords :
            Before(a, b) =>
                LET ab == AfterBoth(a, b)
                    ba == AfterBoth(b, a)
                IN  /\ ab.covered = ba.covered
                    /\ ab.num_covered = ba.num_covered
                    /\ (\A p \in {a, b} \cap Cells(size) : mines[p] = 0) =>
                          ab.game_state = ba.game_state

\* after a call that uncovered a square, a covered zero-count square a and a
\* covered square b that the cascade from a uncovers: b acts in one order and
\* is blocked in the other; and a covered mine, which either order uncovers
C19_Witness ==
    /\ FreshIdle /\ calls = 1
    /\ \E a \in Cells(size), b \in Cells(size) :
          /\ covered[a] # 0 /\ covered[b] # 0 /\ a # b
          /\ mines[a] = 0 /\ board[a] = 0
          /\ reveal(Self, a[1], a[2]).covered[b] = 0
          /\ AfterBoth(b, a).num_covered = AfterBoth(a, b).num_covered
    /\ \E m \in Cells(size), b \in Cells(size) :
          /\ mines[m] # 0 /\ covered[m] # 0 /\ covered[b] # 0 /\ mines[b] = 0
          /\ AfterBoth(m, b).game_state # AfterBoth(b, m).game_state

====
